---- MODULE Spec2Model ----
(***************************************************************************)
(* Model of the plan-based task orchestration engine of BinkOS:            *)
(* packages/core/src/agent/planner/graph/PlannerGraph.ts.                  *)
(*                                                                         *)
(* The session state is the set of LastValue channels declared by         *)
(* StateAnnotation; a node returns a partial object and the graph runtime  *)
(* overwrites exactly the channels whose key is `in` the returned object.  *)
(* One turn is one run of the compiled graph from START to END; the       *)
(* session state is handed from one turn to the next by the caller.        *)
(***************************************************************************)
EXTENDS Integers, Sequences, FiniteSets, TLC

(* ---------------- bounds of the model ---------------- *)
MaxPlans == 2
MaxTasks == 1
MaxRetry == 4
MaxTurns == 4
\* getQuote calls of a provider
MaxQuotes == 3
\* the clock value up to which time passes with no timer pending
MaxTime == 3
\* how late after its delay a timer callback may run
MaxLate == 1
MaxOutcomes == 4
MaxSends == 2
MaxProviders == 3

(* ---------------- program constants ---------------- *)
\* the retry ceiling of selectTasksNode: `task.retry > 3`
RetryCeiling == 3

\* JavaScript values `undefined` and `null`, and langgraph's END sentinel
Undef == "undefined"
Null == "null"
END == "__end__"
\* selected_task_indexes before any node has written it
UndefIdx == {-1}

PlanIdOf(n) == <<"P1", "P2", "P3", "P4">>[n]
\* an id the gateway may name that designates no plan
BogusId == "Px"
IdsOf(ps) == {ps[n].id : n \in 1..Len(ps)}
TaskStatuses == {"pending", "complete", "failed"}
\* retry increments an update may propose for a task that failed again
RetryIncs == {0, 1, RetryCeiling + 1}
\* what an update may propose for a task: its new status and, for a
\* failed task, a retry increment
TaskOutcomes ==
    {<<"pending", 0>>, <<"complete", 0>>} \cup {<<"failed", k>> : k \in RetryIncs}

VARIABLES
    plans_present,          \* FALSE while the channel `plans` is undefined
    plans,                  \* channel plans (a sequence of plans)
    active_plan_id,         \* channel active_plan_id
    selected_task_indexes,  \* channel selected_task_indexes
    executor_input,         \* channel executor_input
    next_node,              \* channel next_node
    answer,                 \* channel answer
    ended_by,               \* channel ended_by
    chat_history,           \* channel chat_history (a sequence of messages)
    pc,                     \* the node the graph is about to run
    route,                  \* decision of the START edge in this turn
    visited,                \* nodes run so far in this turn
    gwLog,                  \* gateway calls of this turn: <<node, kind of response>>
    selResp,                \* the gateway's response to the selector in this turn
    updResp,                \* the response a single reconciliation handles
                            \* (recorded under ReconcileSpec)
    capLog,                 \* capability invocations of this turn
    capFailed,              \* a capability invoked in this turn has thrown
    forced,                 \* the selector found a plan to terminate
    prevOutcome,            \* how the previous turn ended
    turn,                   \* number of the current turn
    new_plan                \* the plan the Plan Compiler produced, until a
                            \* select_tasks action is taken

state == <<plans_present, plans, active_plan_id, selected_task_indexes,
           executor_input, next_node, answer, ended_by, chat_history>>
ghost == <<route, visited, gwLog, selResp, updResp, capLog, capFailed, forced, prevOutcome, turn, new_plan>>
plannerVars ==
    <<plans_present, plans, active_plan_id, selected_task_indexes,
      executor_input, next_node, answer, ended_by, chat_history, pc,
      route, visited, gwLog, selResp, updResp, capLog, capFailed, forced,
      prevOutcome, turn, new_plan>>

\* a swap provider (KyberProvider, DodoProvider, HyperliquidProvider)
VARIABLES
    quotes,                 \* the Map quotes: quoteId -> expiresAt
    timers,                 \* pending setTimeout callbacks
    now,                    \* the clock, in minutes
    requests                \* getQuote calls made so far

quoteVars == <<quotes, timers, now, requests>>
\* a provider that has issued no quote
QuoteIdle == quotes = <<>> /\ timers = {} /\ now = 0 /\ requests = 0

\* one call of the get_wallet_balance tool
VARIABLES
    callArgs,               \* args of the call: address, network
    supportedNetworks,      \* result of getSupportedNetworks()
    balanceQueries,         \* balance queries issued: target, network, address
    toolResult              \* what func returned

walletVars == <<callArgs, supportedNetworks, balanceQueries, toolResult>>
\* no call made
WalletIdle ==
    /\ callArgs = [address |-> Undef, network |-> Undef]
    /\ supportedNetworks = {}
    /\ balanceQueries = {}
    /\ toolResult = "pending"

\* the outcome records of updatePlanNode's request to the gateway
VARIABLES
    executor_response_tools,    \* channel executor_response_tools: tool names
    toolMessages                \* the records put into the request

requestVars == <<executor_response_tools, toolMessages>>
\* the caller hands over no outcome record: the request carries none
RequestIdle == executor_response_tools = <<>> /\ toolMessages = <<>>

\* two runs of the compiled graph in flight at once
VARIABLES
    sessions,               \* per run: its channels and the node it is at
    started,                \* per run: the session state it was invoked on
    replies,                \* per run: what the gateway and handlers answer
    overlapped              \* a node of one run ran while the other was mid-turn

concVars == <<sessions, started, replies, overlapped>>
ConcIdle ==
    /\ sessions = <<>>
    /\ started = <<>>
    /\ replies = <<>>
    /\ overlapped = FALSE

\* calls of the providers' other operations
VARIABLES
    built,                  \* the last buildSwapTransaction call and its result
    quoted,                 \* the last getQuote call of Dodo / Hyperliquid
    sent,                   \* the last buildSendTransaction call of Hyperliquid
    orders,                 \* orders the exchange has accepted
    sends,                  \* buildSendTransaction calls made so far
    tokenCache,             \* KyberProvider.tokenCache: address -> {token, timestamp}
    fetched,                \* the last getToken call of KyberProvider
    networkProviders,       \* registry.getProvidersByNetwork(network), in its order
    walletCall              \* the last get_wallet_balance call over these providers

\* the record of a provider operation that has not been called yet
NotCalled == [called |-> FALSE]
swapVars == <<built>>
stagedVars == <<quoted>>
sendVars == <<sent, orders, sends>>
cacheVars == <<tokenCache, fetched>>
loopVars == <<networkProviders, walletCall>>

providerVars == <<swapVars, stagedVars, sendVars, cacheVars, loopVars>>
\* providers constructed, nothing registered, cached, placed or called
ProviderIdle ==
    /\ built = NotCalled /\ quoted = NotCalled
    /\ sent = NotCalled /\ orders = 0 /\ sends = 0
    /\ tokenCache = <<>> /\ fetched = NotCalled
    /\ networkProviders = <<>> /\ walletCall = NotCalled

\* what the planner graph leaves alone
others == <<quoteVars, walletVars, requestVars, concVars, providerVars>>
OthersIdle == QuoteIdle /\ WalletIdle /\ RequestIdle /\ ConcIdle /\ ProviderIdle
vars == <<plannerVars, others>>

(* ---------------- gateway responses ---------------- *)
\* One requested action (an entry of response.tool_calls).
Call(name, pid, idx, upd) ==
    [name |-> name, plan_id |-> pid, task_indexes |-> idx, upd |-> upd]
NoUpd == [index |-> 0, status |-> Undef, inc |-> 0, done |-> FALSE, ntasks |-> 0]
\* A response: tool_calls absent (has = FALSE), or a list of calls.
TextOnly == [has |-> FALSE, calls |-> <<>>]
EmptyCalls == [has |-> TRUE, calls |-> <<>>]
OneCall(c) == [has |-> TRUE, calls |-> <<c>>]
TwoCalls(c, d) == [has |-> TRUE, calls |-> <<c, d>>]
OtherCall == Call("other", Undef, {}, NoUpd)
\* what a response is, for the log: free text, an empty action list, or
\* the name of its first action
Kind(resp) ==
    IF ~resp.has THEN "text"
    ELSE IF Len(resp.calls) = 0 THEN "empty" ELSE resp.calls[1].name

CreateCalls ==
    {Call("create_plan", Undef, {}, [NoUpd EXCEPT !.ntasks = n]) : n \in 1..MaxTasks}
\* responses to the Plan Compiler: text, no action, a foreign action, one
\* create_plan action, or the same action twice
CreateResponses ==
    {TextOnly, EmptyCalls, OneCall(OtherCall)}
    \cup {OneCall(c) : c \in CreateCalls}
    \cup {TwoCalls(c, c) : c \in CreateCalls}

UpdateCalls(ps) ==
    {Call("update_plan", p, {},
          [index |-> i, status |-> s[1], inc |-> s[2], done |-> d, ntasks |-> 0])
        : p \in IdsOf(ps), i \in 0..(MaxTasks - 1), s \in TaskOutcomes,
          d \in BOOLEAN}
\* the update_plan action a response carries twice: a task marked failed
RepeatedUpdateCalls(ps) ==
    {Call("update_plan", p, {},
          [index |-> i, status |-> "failed", inc |-> 0, done |-> FALSE, ntasks |-> 0])
        : p \in IdsOf(ps), i \in 0..(MaxTasks - 1)}
\* an update_plan action without plan_id
MalformedUpdateCall ==
    Call("update_plan", Undef, {},
         [index |-> 0, status |-> "failed", inc |-> 0, done |-> FALSE, ntasks |-> 0])
UpdateResponses(ps) ==
    {TextOnly, EmptyCalls, OneCall(OtherCall), OneCall(MalformedUpdateCall)}
    \cup {OneCall(c) : c \in UpdateCalls(ps)}
    \cup {TwoCalls(c, c) : c \in RepeatedUpdateCalls(ps)}

TerminateCall == Call("terminate", Undef, {}, NoUpd)
SelectCalls(ps) ==
    {Call("select_tasks", p, I, NoUpd)
        : p \in IdsOf(ps) \cup {BogusId}, I \in (SUBSET (0..(MaxTasks - 1))) \ {{}}}
\* select_tasks actions without plan_id, without task_indexes
MalformedSelectCalls ==
    {Call("select_tasks", Undef, {0}, NoUpd), Call("select_tasks", BogusId, UndefIdx, NoUpd)}
\* responses to the Task Selector: text, no action, a foreign action,
\* terminate, select_tasks, or terminate followed by select_tasks
SelectResponses(ps) ==
    {TextOnly, EmptyCalls, OneCall(OtherCall), OneCall(TerminateCall),
     TwoCalls(TerminateCall, Call("select_tasks", BogusId, {0}, NoUpd))}
    \cup {OneCall(c) : c \in SelectCalls(ps)}
    \cup {OneCall(c) : c \in MalformedSelectCalls}

(* ---------------- capabilities (handlers outside src/) ---------------- *)
NewTask == [status |-> "pending", retry |-> 0]
\* a slip that gives every new plan the first id
CreatePlanTool_FirstId(args, ps) ==
    Append(ps, [id |-> PlanIdOf(1), status |-> "active",
                tasks |-> [i \in 1..args.upd.ntasks |-> NewTask]])
\* create_plan: a new plan with a fresh id, status active, tasks pending
CreatePlanTool(args, ps) ==
    Append(ps, [id |-> PlanIdOf(Len(ps) + 1), status |-> "active",
                tasks |-> [i \in 1..args.upd.ntasks |-> NewTask]])

\* a slip that resets the retry count of a task set back to pending
UpdTask_ResetOnPending(t, u) ==
    [status |-> u.status,
     retry |-> IF u.status = "pending" THEN 0
               ELSE IF t.retry + u.inc > MaxRetry THEN MaxRetry ELSE t.retry + u.inc]
\* update_plan on one task: the proposed status, the retry count raised by
\* the proposed increment
UpdTask(t, u) ==
    [status |-> u.status,
     retry |-> IF t.retry + u.inc > MaxRetry THEN MaxRetry ELSE t.retry + u.inc]
\* a slip that applies a mutation to every task of the plan
UpdTasks_EveryTask(ts, u) == [i \in 1..Len(ts) |-> UpdTask(ts[i], u)]
\* one per-task mutation applied to a task list, the task matched by index
UpdTasks(ts, u) ==
    [i \in 1..Len(ts) |-> IF i - 1 = u.index THEN UpdTask(ts[i], u) ELSE ts[i]]
\* the mutations of args.tasks applied in order
RECURSIVE ApplyMuts(_, _)
ApplyMuts(ts, muts) ==
    IF Len(muts) = 0 THEN ts ELSE ApplyMuts(UpdTasks(ts, Head(muts)), Tail(muts))
\* update_plan: per-task mutations applied to the plan matching plan_id,
\* tasks matched by index
UpdatePlanTool(args, ps) ==
    [n \in 1..Len(ps) |->
        IF ps[n].id # args.plan_id THEN ps[n]
        ELSE [id |-> ps[n].id,
              status |-> IF \E k \in 1..Len(args.tasks) : args.tasks[k].done
                         THEN "complete" ELSE ps[n].status,
              tasks |-> ApplyMuts(ps[n].tasks, args.tasks)]]

\* the input schemas: update_plan requires plan_id, select_tasks requires
\* plan_id and task_indexes; a handler invoked without them throws
UpdatePlanToolRejects(args) == args.plan_id = Undef
SelectTasksToolRejects(args) == args.plan_id = Undef \/ args.task_indexes = UndefIdx
\* select_tasks: the next-step instruction for the external executor
SelectTasksTool(args) == <<args.plan_id, args.task_indexes>>

(* ---------------- the nodes ---------------- *)
\* a node's result: the object it returns (a function from channel names
\* to values), whether it threw, the capabilities it invoked
Result(out, caps) == [err |-> FALSE, out |-> out, caps |-> caps]
Thrown(caps) == [err |-> TRUE, out |-> <<>>, caps |-> caps]
NoWrites == <<>>

Has(out, key) == key \in DOMAIN out
\* the graph writes a channel iff its key is in the returned object
Merged(old, out, key) == IF Has(out, key) THEN out[key] ELSE old

\* a slip that records only the plan the capability has just created
createPlanNode_OnlyNewPlan(resp, capOk, ps) ==
    IF ~resp.has THEN Result(NoWrites, <<>>)
    ELSE IF Len(resp.calls) = 0 THEN Thrown(<<>>)
    ELSE LET toolCall == resp.calls[1] IN
         IF toolCall.name = "create_plan"
         THEN IF capOk
              THEN Result([plans |-> <<CreatePlanTool(toolCall, ps)[Len(ps) + 1]>>],
                          <<"create_plan">>)
              ELSE Thrown(<<"create_plan">>)
         ELSE Result(NoWrites, <<>>)
\* createPlanNode after the gateway has answered resp; capOk: the
\* capability invocation returns
createPlanNode(resp, capOk, ps) ==
    IF ~resp.has THEN Result(NoWrites, <<>>)
    ELSE IF Len(resp.calls) = 0 THEN Thrown(<<>>)
    ELSE LET toolCall == resp.calls[1] IN
         IF toolCall.name = "create_plan"
         THEN IF capOk
              THEN Result([plans |-> CreatePlanTool(toolCall, ps)], <<"create_plan">>)
              ELSE Thrown(<<"create_plan">>)
         ELSE Result(NoWrites, <<>>)

IsUpdateCall(c) == c.name = "update_plan"
\* the arguments updatePlanNode hands to the update_plan capability: the
\* plan id of the first update_plan call, the task lists of all of them
UpdateArgs_LastPlanId(updatePlanToolCalls) ==
    [plan_id |-> updatePlanToolCalls[Len(updatePlanToolCalls)].plan_id,
     tasks |-> [k \in 1..Len(updatePlanToolCalls) |-> updatePlanToolCalls[k].upd]]
UpdateArgs(updatePlanToolCalls) ==
    [plan_id |-> updatePlanToolCalls[1].plan_id,
     tasks |-> [k \in 1..Len(updatePlanToolCalls) |-> updatePlanToolCalls[k].upd]]
\* the update_plan capability is handed arguments its schema rejects
UpdateRejected(resp) ==
    /\ resp.has
    /\ LET updatePlanToolCalls == SelectSeq(resp.calls, IsUpdateCall) IN
       /\ Len(updatePlanToolCalls) > 0
       /\ UpdatePlanToolRejects(UpdateArgs(updatePlanToolCalls))
\* a slip that catches the capability's error and falls back to the response
updatePlanNode_CatchError(resp, capOk, ps) ==
    IF ~resp.has THEN Result(NoWrites, <<>>)
    ELSE LET updatePlanToolCalls == SelectSeq(resp.calls, IsUpdateCall) IN
         IF Len(updatePlanToolCalls) > 0
         THEN IF capOk
              THEN Result([plans |-> UpdatePlanTool(UpdateArgs(updatePlanToolCalls), ps)],
                          <<"update_plan">>)
              ELSE Result(NoWrites, <<"update_plan">>)
         ELSE Result(NoWrites, <<>>)
\* a slip that invokes the capability once per update_plan call
updatePlanNode_InvokePerCall(resp, capOk, ps) ==
    IF ~resp.has THEN Result(NoWrites, <<>>)
    ELSE LET updatePlanToolCalls == SelectSeq(resp.calls, IsUpdateCall) IN
         IF Len(updatePlanToolCalls) > 0
         THEN IF capOk
              THEN Result([plans |-> UpdatePlanTool(UpdateArgs(updatePlanToolCalls), ps)],
                          [k \in 1..Len(updatePlanToolCalls) |-> "update_plan"])
              ELSE Thrown(<<"update_plan">>)
         ELSE Result(NoWrites, <<>>)
updatePlanNode(resp, capOk, ps) ==
    IF ~resp.has THEN Result(NoWrites, <<>>)
    ELSE LET updatePlanToolCalls == SelectSeq(resp.calls, IsUpdateCall) IN
         IF Len(updatePlanToolCalls) > 0
         THEN IF capOk
              THEN Result([plans |-> UpdatePlanTool(UpdateArgs(updatePlanToolCalls), ps)],
                          <<"update_plan">>)
              ELSE Thrown(<<"update_plan">>)
         ELSE Result(NoWrites, <<>>)

\* a slip that trips the policy on reaching the ceiling
TaskOverCeiling_AtCeiling(task) == task.status = "failed" /\ task.retry >= RetryCeiling
\* task.status === 'failed' && task.retry > 3
TaskOverCeiling(task) == task.status = "failed" /\ task.retry > RetryCeiling
PlanOverCeiling(plan) ==
    \E i \in 1..Len(plan.tasks) : TaskOverCeiling(plan.tasks[i])
\* a slip that looks only at the most recent plan
planToTerminate_LastPlanOnly(ps) == Len(ps) > 0 /\ PlanOverCeiling(ps[Len(ps)])
\* state.plans.find(...) is truthy
planToTerminate(ps) == \E n \in 1..Len(ps) : PlanOverCeiling(ps[n])

\* a slip that signals the END sentinel on forced termination
ForcedOut_End == [next_node |-> END]
\* the object returned on forced termination
ForcedOut == [next_node |-> "end"]
\* a slip that signals END on terminate
TerminateOut_End == [next_node |-> END]
\* a slip that drops the selection on terminate
TerminateOut_ClearSelection ==
    [next_node |-> "planning_answer", selected_task_indexes |-> {}]
TerminateOut == [next_node |-> "planning_answer"]
\* a slip that leaves the previous turn's answer in place
SelectOut_KeepAnswer(toolArgs) ==
    [selected_task_indexes |-> toolArgs.task_indexes,
     active_plan_id |-> toolArgs.plan_id,
     executor_input |-> <<toolArgs.plan_id, toolArgs.task_indexes>>,
     next_node |-> END]
SelectOut(toolArgs) ==
    [selected_task_indexes |-> toolArgs.task_indexes,
     active_plan_id |-> toolArgs.plan_id,
     executor_input |-> SelectTasksTool(toolArgs),
     next_node |-> END,
     answer |-> Null]

\* the select_tasks capability is handed arguments its schema rejects
SelectRejected(resp) ==
    /\ resp.has /\ Len(resp.calls) > 0
    /\ resp.calls[1].name = "select_tasks"
    /\ SelectTasksToolRejects(resp.calls[1])
\* selectTasksNode after the forced-termination check has found nothing
\* and the gateway has answered resp
selectTasksNode(resp, capOk) ==
    IF ~resp.has THEN Result(NoWrites, <<>>)
    ELSE IF Len(resp.calls) = 0 THEN Thrown(<<>>)
    ELSE LET toolCall == resp.calls[1] IN
         IF toolCall.name = "select_tasks"
         THEN IF capOk
              THEN Result(SelectOut(toolCall), <<"select_tasks">>)
              ELSE Thrown(<<"select_tasks">>)
         ELSE IF toolCall.name = "terminate"
         THEN Result(TerminateOut, <<>>)
         ELSE Result(NoWrites, <<>>)

\* a slip that takes the node name 'end' for the END sentinel
selectTasksEdge_EndAlias(nn, ans) ==
    IF nn \in {END, "end"} /\ ans \in {Null, Undef} THEN "end" ELSE "planning_answer"
\* a slip that runs the Task Selector again instead of ending the turn
selectTasksEdge_Again(nn, ans) ==
    IF nn = END /\ ans \in {Null, Undef} THEN "select_tasks" ELSE "planning_answer"
\* a slip that loops back to the Plan Reconciler instead of ending the turn
selectTasksEdge_LoopBack(nn, ans) ==
    IF nn = END /\ ans \in {Null, Undef} THEN "update_plan" ELSE "planning_answer"
\* the conditional edge leaving select_tasks
selectTasksEdge(nn, ans) ==
    IF nn = END /\ ans \in {Null, Undef} THEN "end" ELSE "planning_answer"

\* a slip that drops the check for an absent or empty plan list
shouldCreateOrUpdatePlan_NoEmptyCheck(present, ps, apid, eb) ==
    IF (\E n \in 1..Len(ps) : ps[n].id = apid /\ ps[n].status = "complete")
       \/ eb = "planner_answer"
    THEN "create_plan" ELSE "update_plan"
\* a slip that drops the check of ended_by
shouldCreateOrUpdatePlan_IgnoreEndedBy(present, ps, apid, eb) ==
    IF ~present \/ Len(ps) = 0 THEN "create_plan"
    ELSE IF \E n \in 1..Len(ps) : ps[n].id = apid /\ ps[n].status = "complete"
         THEN "create_plan" ELSE "update_plan"
\* the conditional edge leaving START
shouldCreateOrUpdatePlan(present, ps, apid, eb) ==
    IF ~present \/ Len(ps) = 0 THEN "create_plan"
    ELSE LET isActivePlanCompleted ==
                 \E n \in 1..Len(ps) : ps[n].id = apid /\ ps[n].status = "complete"
             wasEndedByPlanner == eb = "planner_answer"
         IN IF isActivePlanCompleted \/ wasEndedByPlanner
            THEN "create_plan" ELSE "update_plan"

\* the object answerNode returns; response.content is "text"
AnswerOut ==
    [chat_history |-> <<"text">>, answer |-> "text", next_node |-> END,
     ended_by |-> "planner_answer"]

(* ---------------- the state machine ---------------- *)
PlannerInit ==
    /\ plans_present \in BOOLEAN
    /\ plans = <<>>
    /\ active_plan_id = Undef
    /\ selected_task_indexes = UndefIdx
    /\ executor_input = <<>>
    /\ next_node = Undef
    /\ answer = Undef
    /\ ended_by = Undef
    /\ chat_history = <<>>
    /\ pc = "START"
    /\ route = Undef
    /\ visited = <<>>
    /\ gwLog = <<>>
    /\ selResp = TextOnly
    /\ updResp = TextOnly
    /\ capLog = <<>>
    /\ capFailed = FALSE
    /\ forced = FALSE
    /\ prevOutcome = Undef
    /\ turn = 1
    /\ new_plan = Undef

Init == PlannerInit /\ OthersIdle

\* the graph applies a node's returned object to the channels
Apply(out) ==
    /\ plans_present' = (plans_present \/ Has(out, "plans"))
    /\ plans' = Merged(plans, out, "plans")
    /\ active_plan_id' = Merged(active_plan_id, out, "active_plan_id")
    /\ selected_task_indexes' = Merged(selected_task_indexes, out, "selected_task_indexes")
    /\ executor_input' = Merged(executor_input, out, "executor_input")
    /\ next_node' = Merged(next_node, out, "next_node")
    /\ answer' = Merged(answer, out, "answer")
    /\ ended_by' = Merged(ended_by, out, "ended_by")
    /\ chat_history' = Merged(chat_history, out, "chat_history")

Fail == pc' = "failed" /\ UNCHANGED state

Start ==
    /\ pc = "START"
    /\ pc' = shouldCreateOrUpdatePlan(plans_present, plans, active_plan_id, ended_by)
    /\ route' = pc'
    /\ UNCHANGED <<state, visited, gwLog, selResp, updResp, capLog, capFailed, forced, prevOutcome,
                   turn, new_plan>>
    /\ UNCHANGED others

CreatePlan ==
    /\ pc = "create_plan"
    /\ \E resp \in CreateResponses, capOk \in BOOLEAN :
         LET r == createPlanNode(resp, capOk, plans) IN
         /\ resp.has /\ Len(resp.calls) > 0 /\ resp.calls[1].name = "create_plan"
               => Len(plans) < MaxPlans
         /\ gwLog' = Append(gwLog, <<"create_plan", Kind(resp)>>)
         /\ capLog' = capLog \o r.caps
         /\ capFailed' = (capFailed \/ (r.caps # <<>> /\ ~capOk))
         /\ visited' = Append(visited, "create_plan")
         /\ IF r.err THEN Fail
            ELSE Apply(r.out) /\ pc' = "select_tasks"
         /\ new_plan' = IF ~r.err /\ Has(r.out, "plans")
                         THEN r.out.plans[Len(r.out.plans)].id ELSE new_plan
    /\ UNCHANGED <<route, selResp, updResp, forced, prevOutcome, turn>>
    /\ UNCHANGED others

UpdatePlan ==
    /\ pc = "update_plan"
    /\ \E resp \in UpdateResponses(plans), capOk \in BOOLEAN :
         LET r == updatePlanNode(resp, capOk, plans) IN
         /\ UpdateRejected(resp) => ~capOk
         /\ gwLog' = Append(gwLog, <<"update_plan", Kind(resp)>>)
         /\ capLog' = capLog \o r.caps
         /\ capFailed' = (capFailed \/ (r.caps # <<>> /\ ~capOk))
         /\ visited' = Append(visited, "update_plan")
         /\ IF r.err THEN Fail
            ELSE Apply(r.out) /\ pc' = "select_tasks"
    /\ UNCHANGED <<route, selResp, updResp, forced, prevOutcome, turn, new_plan>>
    /\ UNCHANGED others

\* state.plans.find on an undefined plan list throws
SelectNoPlans ==
    /\ pc = "select_tasks"
    /\ ~plans_present
    /\ visited' = Append(visited, "select_tasks")
    /\ Fail
    /\ UNCHANGED <<route, gwLog, selResp, updResp, capLog, capFailed, forced, prevOutcome, turn,
                   new_plan>>
    /\ UNCHANGED others

SelectForced ==
    /\ pc = "select_tasks"
    /\ plans_present
    /\ planToTerminate(plans)
    /\ forced' = TRUE
    /\ visited' = Append(visited, "select_tasks")
    /\ Apply(ForcedOut)
    /\ pc' = selectTasksEdge(next_node', answer')
    /\ UNCHANGED <<route, gwLog, selResp, updResp, capLog, capFailed, prevOutcome, turn, new_plan>>
    /\ UNCHANGED others

SelectTasks ==
    /\ pc = "select_tasks"
    /\ plans_present
    /\ ~planToTerminate(plans)
    /\ \E resp \in SelectResponses(plans), capOk \in BOOLEAN :
         LET r == selectTasksNode(resp, capOk) IN
         /\ SelectRejected(resp) => ~capOk
         /\ gwLog' = Append(gwLog, <<"select_tasks", Kind(resp)>>)
         /\ selResp' = resp
         /\ capLog' = capLog \o r.caps
         /\ capFailed' = (capFailed \/ (r.caps # <<>> /\ ~capOk))
         /\ visited' = Append(visited, "select_tasks")
         /\ IF r.err THEN Fail
            ELSE Apply(r.out) /\ pc' = selectTasksEdge(next_node', answer')
         /\ new_plan' = IF ~r.err /\ Has(r.out, "active_plan_id")
                         THEN Undef ELSE new_plan
    /\ UNCHANGED <<route, updResp, forced, prevOutcome, turn>>
    /\ UNCHANGED others

Answer ==
    /\ pc = "planning_answer"
    /\ gwLog' = Append(gwLog, <<"planning_answer", "text">>)
    /\ visited' = Append(visited, "planning_answer")
    /\ Apply(AnswerOut)
    /\ pc' = "end"
    /\ UNCHANGED <<route, selResp, updResp, capLog, capFailed, forced, prevOutcome, turn, new_plan>>
    /\ UNCHANGED others

EndNode ==
    /\ pc = "end"
    /\ visited' = Append(visited, "end")
    /\ Apply(NoWrites)
    /\ pc' = "END"
    /\ UNCHANGED <<route, gwLog, selResp, updResp, capLog, capFailed, forced, prevOutcome, turn,
                   new_plan>>
    /\ UNCHANGED others

\* how a turn ended: "answer" through the Answer Synthesizer, "continue"
\* after a select_tasks action, "stale" without either
Outcome(v, caps) ==
    IF \E i \in 1..Len(v) : v[i] = "planning_answer" THEN "answer"
    ELSE IF \E i \in 1..Len(caps) : caps[i] = "select_tasks" THEN "continue"
    ELSE "stale"

\* the caller starts the next turn on the session state the turn left
NextTurn ==
    /\ pc = "END"
    /\ turn < MaxTurns
    /\ turn' = turn + 1
    /\ UNCHANGED <<new_plan, capFailed>>
    /\ pc' = "START"
    /\ prevOutcome' = Outcome(visited, capLog)
    /\ route' = Undef
    /\ visited' = <<>>
    /\ gwLog' = <<>>
    /\ selResp' = TextOnly
    /\ UNCHANGED updResp
    /\ capLog' = <<>>
    /\ forced' = FALSE
    /\ UNCHANGED state
    /\ UNCHANGED others

Next ==
    \/ Start
    \/ CreatePlan
    \/ UpdatePlan
    \/ SelectNoPlans
    \/ SelectForced
    \/ SelectTasks
    \/ Answer
    \/ EndNode
    \/ NextTurn

Spec == Init /\ [][Next]_vars

\* a step within a turn: the START edge or a node with the edge leaving it
TurnStep ==
    \/ Start
    \/ CreatePlan
    \/ UpdatePlan
    \/ SelectNoPlans
    \/ SelectForced
    \/ SelectTasks
    \/ Answer
    \/ EndNode
\* session states a turn starts on: a plan list of no plan or one plan,
\* left by no turn, by a turn ended with 'continue' or by the Answer
\* Synthesizer
TurnTasks ==
    {[status |-> "pending", retry |-> 0], [status |-> "complete", retry |-> 0],
     [status |-> "failed", retry |-> 1], [status |-> "failed", retry |-> RetryCeiling + 1]}
TurnPlanLists ==
    {<<>>} \cup {<<[id |-> PlanIdOf(1), status |-> st, tasks |-> ts]>>
                   : st \in {"active", "complete"}, ts \in [1..MaxTasks -> TurnTasks]}
TurnInit ==
    /\ plans \in TurnPlanLists
    /\ \/ /\ plans = <<>> /\ plans_present \in BOOLEAN
          /\ active_plan_id = Undef /\ selected_task_indexes = UndefIdx
          /\ executor_input = <<>>
          /\ next_node = Undef /\ answer = Undef /\ ended_by = Undef
          /\ chat_history = <<>>
       \/ /\ plans # <<>> /\ plans_present = TRUE
          /\ active_plan_id = PlanIdOf(1) /\ selected_task_indexes = {0}
          /\ executor_input = <<PlanIdOf(1), {0}>>
          /\ \/ /\ next_node = END /\ answer = Null /\ ended_by = Undef
                /\ chat_history = <<>>
             \/ /\ next_node = END /\ answer = "text" /\ ended_by = "planner_answer"
                /\ chat_history = <<"text">>
    /\ pc = "START"
    /\ route = Undef
    /\ visited = <<>>
    /\ gwLog = <<>>
    /\ selResp = TextOnly
    /\ updResp = TextOnly
    /\ capLog = <<>>
    /\ capFailed = FALSE
    /\ forced = FALSE
    /\ prevOutcome = Undef
    /\ turn = 1
    /\ new_plan = Undef
    /\ OthersIdle
\* one turn in which every gateway call and capability invocation returns
\* or fails, after which the graph runs the next node
TurnSpec == TurnInit /\ [][TurnStep]_vars /\ WF_vars(TurnStep)

(* ---------------- one reconciliation of a plan list ---------------- *)
\* tasks per plan of the plan lists reconciled here
ReconcileTasks == MaxTasks + 1
ReconcileTaskLists ==
    [1..ReconcileTasks -> {[status |-> st, retry |-> 0] : st \in {"pending", "failed"}}]
\* plan lists as CreatePlanTool leaves them, the tasks pending or failed
ReconcilePlanLists ==
    {[n \in 1..MaxPlans |-> [id |-> PlanIdOf(n), status |-> "active", tasks |-> f[n]]]
        : f \in [1..MaxPlans -> ReconcileTaskLists]}
ReconcileCalls(ps) ==
    {Call("update_plan", p, {},
          [index |-> i, status |-> s[1], inc |-> s[2], done |-> d, ntasks |-> 0])
        : p \in IdsOf(ps), i \in 0..(ReconcileTasks - 1), s \in TaskOutcomes,
          d \in BOOLEAN}
\* a further update_plan action of a response: a task reported complete,
\* with or without plan_id
FurtherCalls(ps) ==
    {Call("update_plan", p, {},
          [index |-> i, status |-> "complete", inc |-> 0, done |-> FALSE, ntasks |-> 0])
        : p \in IdsOf(ps) \cup {Undef}, i \in 0..(ReconcileTasks - 1)}
ReconcileResponses(ps) ==
    {OneCall(c) : c \in ReconcileCalls(ps)}
    \cup {OneCall(MalformedUpdateCall)}
    \cup {TwoCalls(OtherCall, c) : c \in FurtherCalls(ps)}
    \cup {TwoCalls(c, d) : c \in ReconcileCalls(ps), d \in FurtherCalls(ps)}

\* a turn that has entered UPDATE_PLAN on a plan list of several tasks
ReconcileInit ==
    /\ plans_present = TRUE
    /\ plans \in ReconcilePlanLists
    /\ active_plan_id = PlanIdOf(1)
    /\ selected_task_indexes = {0}
    /\ executor_input = <<PlanIdOf(1), {0}>>
    /\ next_node = END
    /\ answer = Null
    /\ ended_by = Undef
    /\ chat_history = <<>>
    /\ pc = "update_plan"
    /\ route = "update_plan"
    /\ visited = <<>>
    /\ gwLog = <<>>
    /\ selResp = TextOnly
    /\ updResp = TextOnly
    /\ capLog = <<>>
    /\ capFailed = FALSE
    /\ forced = FALSE
    /\ prevOutcome = "continue"
    /\ turn = 2
    /\ new_plan = Undef
    /\ OthersIdle

\* updatePlanNode on such a plan list, the response recorded
Reconcile ==
    /\ pc = "update_plan"
    /\ \E resp \in ReconcileResponses(plans), capOk \in BOOLEAN :
         LET r == updatePlanNode(resp, capOk, plans) IN
         /\ UpdateRejected(resp) => ~capOk
         /\ gwLog' = Append(gwLog, <<"update_plan", Kind(resp)>>)
         /\ updResp' = resp
         /\ capLog' = capLog \o r.caps
         /\ capFailed' = (capFailed \/ (r.caps # <<>> /\ ~capOk))
         /\ visited' = Append(visited, "update_plan")
         /\ IF r.err THEN Fail
            ELSE Apply(r.out) /\ pc' = "select_tasks"
    /\ UNCHANGED <<route, selResp, forced, prevOutcome, turn, new_plan>>
    /\ UNCHANGED others

ReconcileSpec == ReconcileInit /\ [][Reconcile]_vars

(* ---------------- a swap provider's quote store ---------------- *)
\* CONSTANTS.QUOTE_EXPIRY, in minutes
QUOTE_EXPIRY == 5
\* createSwapQuote: 32 random bytes, a value no earlier quote has
NewQuoteId(n) == n
\* a slip that empties the store when a timer fires
DeleteQuote_All(q, quoteId) == <<>>
\* this.quotes.delete(quoteId)
DeleteQuote(q, quoteId) == [k \in (DOMAIN q) \ {quoteId} |-> q[k]]
\* this.quotes.set(quoteId, {quote, expiresAt})
SetQuote(q, quoteId, expiresAt) == (quoteId :> expiresAt) @@ q

\* getQuote: throws before a quote is made (ok = FALSE), or makes a quote,
\* stores it and starts its timer
GetQuote ==
    /\ requests < MaxQuotes
    /\ requests' = requests + 1
    /\ \E ok \in BOOLEAN :
         IF ok
         THEN LET quoteId == NewQuoteId(requests + 1) IN
              /\ quotes' = SetQuote(quotes, quoteId, now + QUOTE_EXPIRY)
              /\ timers' = timers \cup {[n |-> requests + 1, quoteId |-> quoteId,
                                          due |-> now + QUOTE_EXPIRY]}
         ELSE UNCHANGED <<quotes, timers>>
    /\ UNCHANGED now
    /\ UNCHANGED <<plannerVars, walletVars, requestVars, concVars, providerVars>>

\* a timer callback runs, at its delay or later
TimerFires ==
    /\ \E t \in timers :
         /\ now >= t.due
         /\ quotes' = DeleteQuote(quotes, t.quoteId)
         /\ timers' = timers \ {t}
    /\ UNCHANGED <<now, requests>>
    /\ UNCHANGED <<plannerVars, walletVars, requestVars, concVars, providerVars>>

\* a minute passes
Tick ==
    /\ now < MaxTime \/ timers # {}
    /\ \A t \in timers : now < t.due + MaxLate
    /\ now' = now + 1
    /\ UNCHANGED <<quotes, timers, requests>>
    /\ UNCHANGED <<plannerVars, walletVars, requestVars, concVars, providerVars>>

QuoteInit == PlannerInit /\ plans_present = FALSE /\ OthersIdle
QuoteNext ==
    \/ GetQuote
    \/ TimerFires
    \/ Tick
\* the event loop runs every callback that is due, and time passes
QuoteSpec ==
    QuoteInit /\ [][QuoteNext]_vars /\ WF_vars(TimerFires) /\ WF_vars(Tick)

(* ---------------- building a swap from a stored quote ---------------- *)
\* the tx of the quote createSwapQuote made with this id
StoredTx(quoteId) == [to |-> "router", data |-> quoteId, value |-> "0"]
\* a tx that no stored quote has
ForgedTx == [to |-> "elsewhere", data |-> 0, value |-> "1"]
\* quote arguments of buildSwapTransaction: an id that getQuote has issued
\* or not, with the tx of that quote or another one
QuoteArgs ==
    [quoteId : {NewQuoteId(n) : n \in 1..MaxQuotes}, tx : {ForgedTx}]
    \cup {[quoteId |-> NewQuoteId(n), tx |-> StoredTx(NewQuoteId(n))] : n \in 1..MaxQuotes}
BuildError == "Failed to build swap transaction: Quote expired or not found. Please get a new quote."
\* a slip that takes the tx from the quote passed in
buildSwapTransaction_FromArgument(q, quote) ==
    IF quote.quoteId \notin DOMAIN q
    THEN [ok |-> FALSE, error |-> BuildError]
    ELSE [ok |-> TRUE, tx |-> quote.tx, gasLimit |-> "350000"]
\* a slip that builds from any quote passed in, stored or not
buildSwapTransaction_Unchecked(q, quote) ==
    [ok |-> TRUE, tx |-> StoredTx(quote.quoteId), gasLimit |-> "350000"]
\* buildSwapTransaction(quote, userAddress) on the store q
buildSwapTransaction(q, quote) ==
    IF quote.quoteId \notin DOMAIN q
    THEN [ok |-> FALSE, error |-> BuildError]
    ELSE [ok |-> TRUE, tx |-> StoredTx(quote.quoteId), gasLimit |-> "350000"]

\* a call of buildSwapTransaction; expired: the stored quote's expiresAt
\* has passed when the call reads the store
BuildSwapTransaction ==
    /\ \E quote \in QuoteArgs :
         built' = [called |-> TRUE, quote |-> quote,
                   expired |-> (quote.quoteId \in DOMAIN quotes
                                  /\ now > quotes[quote.quoteId]),
                   result |-> buildSwapTransaction(quotes, quote)]
    /\ UNCHANGED quoteVars
    /\ UNCHANGED <<plannerVars, walletVars, requestVars, concVars, stagedVars, sendVars,
                   cacheVars, loopVars>>

SwapNext ==
    \/ GetQuote
    \/ TimerFires
    \/ Tick
    \/ BuildSwapTransaction
SwapSpec == QuoteInit /\ [][SwapNext]_vars

(* ---------------- getQuote of the Dodo and Hyperliquid providers ---------------- *)
\* if (params?.limitPrice)
Truthy(limitPrice) == limitPrice \notin {Undef, "zero"}
\* params.limitPrice: absent, zero, or a price
QuoteParams == [limitPrice : {Undef, "zero", "price"}, type : {"input", "output"}]
\* what getQuote does after the limit-price check, in order, up to the
\* storing of the quote
QuoteStages(provider, params) ==
    IF provider = "hyperliquid"
    THEN <<"token lookup", "create quote">>
    ELSE IF params.type = "input"
    THEN <<"token lookup", "adjust amount", "api call", "create quote">>
    ELSE <<"token lookup", "reverse quote", "api call", "create quote">>
LimitError(provider) ==
    IF provider = "dodo" THEN "Dodo does not support limit orders"
    ELSE "Hyperliquid does not support limit order for native token swaps"
QuoteFailed(message, performed) ==
    [ok |-> FALSE, stored |-> FALSE, prefix |-> "Failed to get quote: ",
     message |-> message, performed |-> performed]
\* a slip that stores the quote before the stage that may still fail
getQuote_StoreFirst(provider, params, failAt) ==
    IF Truthy(params.limitPrice)
    THEN QuoteFailed(LimitError(provider), <<>>)
    ELSE LET stages == QuoteStages(provider, params) IN
         IF failAt = 0
         THEN [ok |-> TRUE, stored |-> TRUE, performed |-> stages]
         ELSE [ok |-> FALSE, stored |-> TRUE, prefix |-> "Failed to get quote: ",
               message |-> stages[failAt], performed |-> SubSeq(stages, 1, failAt)]
\* getQuote(params, userAddress); failAt: the stage that throws, 0 for none
getQuote(provider, params, failAt) ==
    IF Truthy(params.limitPrice)
    THEN QuoteFailed(LimitError(provider), <<>>)
    ELSE LET stages == QuoteStages(provider, params) IN
         IF failAt = 0
         THEN [ok |-> TRUE, stored |-> TRUE, performed |-> stages]
         ELSE QuoteFailed(stages[failAt], SubSeq(stages, 1, failAt))

\* a call of getQuote on a Dodo or Hyperliquid provider
GetStagedQuote ==
    /\ requests < MaxQuotes
    /\ requests' = requests + 1
    \* DodoProvider, HyperliquidProvider, and the HyperliquidProvider that
    \* asks an API for the route
    /\ \E provider \in {"dodo", "hyperliquid", "hyperliquid routed"}, params \in QuoteParams :
       \E failAt \in 0..Len(QuoteStages(provider, params)) :
         LET r == getQuote(provider, params, failAt)
             quoteId == NewQuoteId(requests + 1) IN
         /\ quoted' = [called |-> TRUE, provider |-> provider, params |-> params,
                       result |-> r]
         /\ IF r.stored
            THEN /\ quotes' = SetQuote(quotes, quoteId, now + QUOTE_EXPIRY)
                 /\ timers' = timers \cup {[n |-> requests + 1, quoteId |-> quoteId,
                                             due |-> now + QUOTE_EXPIRY]}
            ELSE UNCHANGED <<quotes, timers>>
    /\ UNCHANGED now
    /\ UNCHANGED <<plannerVars, walletVars, requestVars, concVars, swapVars, sendVars,
                   cacheVars, loopVars>>

StagedNext ==
    \/ GetStagedQuote
    \/ TimerFires
    \/ Tick
StagedSpec == QuoteInit /\ [][StagedNext]_vars

(* ---------------- placing a Hyperliquid order ---------------- *)
\* what sdk.exchange.placeOrder can do: throw with or without the order
\* accepted, answer without a status, with an error, with a resting order
\* id, or with a filled order
ExchangeReplies ==
    {[kind |-> "throws", placed |-> FALSE], [kind |-> "throws", placed |-> TRUE],
     [kind |-> "no status", placed |-> FALSE], [kind |-> "error", placed |-> FALSE],
     [kind |-> "resting", placed |-> TRUE], [kind |-> "filled", placed |-> TRUE]}
SendFailed(message, requested, placed) ==
    [ok |-> FALSE, prefix |-> "Failed to build transaction: ", message |-> message,
     requested |-> requested, placed |-> placed]
\* buildSendTransaction(quote, pkWallet); lookupOk: getToken returns;
\* reply: what placeOrder does; requested: placeOrder calls made, placed:
\* orders the exchange accepted
buildSendTransaction(quote, lookupOk, reply) ==
    IF ~quote.tokens THEN SendFailed("Invalid quote: missing token information", 0, 0)
    ELSE IF ~quote.amounts
    THEN SendFailed("Invalid quote: missing amount information", 0, 0)
    ELSE IF ~lookupOk THEN SendFailed("Failed to get token info", 0, 0)
    ELSE LET placed == IF reply.placed THEN 1 ELSE 0 IN
         CASE reply.kind = "throws" -> SendFailed("placeOrder error", 1, placed)
           [] reply.kind = "no status" ->
                SendFailed("Invalid response from Hyperliquid API", 1, placed)
           [] reply.kind = "error" -> SendFailed("Order placement failed", 1, placed)
           [] reply.kind = "filled" ->
                SendFailed("Order placed but no order ID returned", 1, placed)
           [] reply.kind = "resting" ->
                [ok |-> TRUE, data |-> "resting oid", requested |-> 1, placed |-> placed]

\* a call of buildSendTransaction
BuildSendTransaction ==
    /\ sends < MaxSends
    /\ sends' = sends + 1
    \* quotes with or without token and amount information
    /\ \E quote \in [tokens : BOOLEAN, amounts : BOOLEAN], lookupOk \in BOOLEAN, reply \in ExchangeReplies :
         LET r == buildSendTransaction(quote, lookupOk, reply) IN
         /\ sent' = [called |-> TRUE, quote |-> quote, lookupOk |-> lookupOk,
                     reply |-> reply, result |-> r]
         /\ orders' = orders + r.placed
    /\ UNCHANGED <<plannerVars, quoteVars, walletVars, requestVars, concVars, swapVars,
                   stagedVars, cacheVars, loopVars>>

SendSpec == QuoteInit /\ [][BuildSendTransaction]_vars

(* ---------------- the token cache of KyberProvider ---------------- *)
\* CACHE_TTL = 30 * 60 * 1000 ms, in minutes
CACHE_TTL == 30
\* token addresses as the callers spell them
TokenAddresses == {"0xAB", "0xcd"}
\* the token made from getTokenInfo's answer, its address lower-cased
FetchedToken(address) ==
    [address |-> IF address = "0xAB" THEN "0xab" ELSE address, symbol |-> "symbol"]
\* a slip that trusts an entry of any age
IsFresh_NoExpiry(cache, address, t) == address \in DOMAIN cache
\* cached && now - cached.timestamp < this.CACHE_TTL
IsFresh(cache, address, t) ==
    address \in DOMAIN cache /\ t - cache[address].timestamp < CACHE_TTL
\* getToken(tokenAddress) called at time t; fetchOk: getTokenInfo returns
getToken(cache, address, t, fetchOk) ==
    IF IsFresh(cache, address, t)
    THEN [ok |-> TRUE, queried |-> FALSE, token |-> cache[address].token, cache |-> cache]
    ELSE IF ~fetchOk
    THEN [ok |-> FALSE, queried |-> TRUE, token |-> Undef, cache |-> cache]
    ELSE [ok |-> TRUE, queried |-> TRUE, token |-> FetchedToken(address),
          cache |-> (address :> [token |-> FetchedToken(address), timestamp |-> t])
                      @@ cache]

\* a call of getToken; a query of the chain takes up to MaxLate minutes
GetToken ==
    /\ \E address \in TokenAddresses, fetchOk \in BOOLEAN, took \in 0..MaxLate :
         LET r == getToken(tokenCache, address, now, fetchOk) IN
         /\ fetched' = [called |-> TRUE, address |-> address, at |-> now,
                        ok |-> r.ok, queried |-> r.queried, token |-> r.token]
         /\ tokenCache' = r.cache
         /\ IF r.queried
            THEN now + took <= CACHE_TTL + MaxTime /\ now' = now + took
            ELSE now' = now
    /\ UNCHANGED <<quotes, timers, requests>>
    /\ UNCHANGED <<plannerVars, walletVars, requestVars, concVars, swapVars, stagedVars,
                   sendVars, loopVars>>

\* a minute passes
CacheTick ==
    /\ now < CACHE_TTL + MaxTime
    /\ now' = now + 1
    /\ UNCHANGED <<quotes, timers, requests>>
    /\ UNCHANGED <<plannerVars, walletVars, requestVars, concVars, providerVars>>

CacheNext ==
    \/ GetToken
    \/ CacheTick
CacheSpec == QuoteInit /\ [][CacheNext]_vars

(* ---------------- the provider loop of get_wallet_balance ---------------- *)
\* JavaScript values of a WalletInfo: objects, arrays, plain values, undefined
Obj(fields) == [type |-> "object", fields |-> fields]
Arr(items) == [type |-> "array", items |-> items]
Val(v) == [type |-> "value", v |-> v]
Undefined == [type |-> "undefined"]
\* {}
EmptyObject == [k \in {} |-> Undefined]

RECURSIVE mergeObjects(_, _)
\* mergeObjects(obj1, obj2): a key of obj2 is merged when both values are
\* objects, skipped when obj2's value is undefined, taken otherwise
mergeObjects(obj1, obj2) ==
    LET added == {k \in DOMAIN (obj2) : k \notin DOMAIN (obj1) /\ obj2[k].type # "undefined"} IN
    [k \in DOMAIN (obj1) \cup added |->
        IF k \notin DOMAIN (obj2) THEN obj1[k]
        ELSE IF k \in DOMAIN (obj1) /\ obj1[k].type = "object" /\ obj2[k].type = "object"
        THEN Obj(mergeObjects(obj1[k].fields, obj2[k].fields))
        ELSE IF obj2[k].type = "undefined" THEN obj1[k]
        ELSE obj2[k]]

\* what provider.getWalletInfo does: throw, or return a WalletInfo, every
\* field of which is optional
ProviderOutcomes == {"throws", "empty", "undefined tokens", "native", "tokens"}
\* a token of a tokens array, as a provider reports it
Token(symbol, provider, worth) == [symbol |-> symbol, provider |-> provider, worth |-> worth]
WalletData(name, outcome) ==
    CASE outcome = "empty" -> EmptyObject
      [] outcome = "undefined tokens" -> [k \in {"tokens"} |-> Undefined]
      [] outcome = "native" ->
           [k \in {"nativeBalance"} |->
              Obj([f \in {"symbol", "balance"} |->
                     IF f = "symbol" THEN Val("BNB") ELSE [type |-> "number", n |-> name]])]
      [] outcome = "tokens" ->
           [k \in {"tokens"} |->
              Arr(<<Token("BNB", name, FALSE), Token("dust", name, FALSE),
                    Token("token", name, TRUE)>>)]

RECURSIVE FilterTokens(_)
\* results.tokens.filter: native symbols and tokens worth more than 0.00001
FilterTokens(items) ==
    IF items = <<>> THEN <<>>
    ELSE IF Head(items).symbol = "BNB" \/ Head(items).worth
    THEN <<Head(items)>> \o FilterTokens(Tail(items))
    ELSE FilterTokens(Tail(items))
\* addAddressToNativeBalance, then the filter of results.tokens
Returned(results) ==
    [k \in DOMAIN (results) |->
        IF k = "nativeBalance" /\ "tokenAddress" \notin DOMAIN (results[k].fields)
        THEN Obj([f \in DOMAIN (results[k].fields) \cup {"tokenAddress"} |->
                    IF f = "tokenAddress" THEN Val("native token address")
                    ELSE results[k].fields[f]])
        ELSE IF k = "tokens" /\ results[k].type = "array"
        THEN Arr(FilterTokens(results[k].items))
        ELSE results[k]]

RECURSIVE QueryProviders(_, _, _)
\* the for loop of STEP 4 from provider i on; acc: queried names, results
\* and errors so far
QueryProviders(providers, outcomes, acc) ==
    LET i == Len(acc.queried) + 1 IN
    IF i > Len(providers) THEN acc
    ELSE LET name == providers[i] IN
         QueryProviders(providers, outcomes,
            IF outcomes[i] = "throws"
            THEN [queried |-> Append(acc.queried, name), results |-> acc.results,
                  errors |-> (name :> "error message") @@ acc.errors]
            ELSE [queried |-> Append(acc.queried, name),
                  results |-> mergeObjects(acc.results, WalletData(name, outcomes[i])),
                  errors |-> acc.errors])
\* STEP 3 and 4 of func for an address and a supported network other than
\* hyperliquid, and the result returned
QueryResult(providers, outcomes) ==
    IF Len(providers) = 0
    THEN [queried |-> <<>>, result |-> [status |-> "error", thrown |-> "PROVIDER_AVAILABILITY"]]
    ELSE LET done == QueryProviders(providers, outcomes,
                        [queried |-> <<>>, results |-> EmptyObject, errors |-> <<>>])
         IN  IF DOMAIN (done.results) = {}
             THEN [queried |-> done.queried,
                   result |-> [status |-> "error", thrown |-> "All providers failed"]]
             ELSE [queried |-> done.queried,
                   result |-> [status |-> "success", data |-> Returned(done.results),
                               hasErrors |-> DOMAIN (done.errors) # {},
                               errors |-> done.errors]]

\* tool.registerProvider(provider), before the tool is used
RegisterProvider ==
    /\ ~walletCall.called
    /\ Len(networkProviders) < MaxProviders
    /\ \E name \in 1..MaxProviders :
         /\ \A i \in 1..Len(networkProviders) : networkProviders[i] # name
         /\ networkProviders' = Append(networkProviders, name)
    /\ UNCHANGED walletCall
    /\ UNCHANGED <<plannerVars, quoteVars, walletVars, requestVars, concVars, swapVars,
                   stagedVars, sendVars, cacheVars>>

\* a call of get_wallet_balance with an address and a supported network
\* other than hyperliquid
QueryWallet ==
    /\ ~walletCall.called
    /\ \E outcomes \in [1..Len(networkProviders) -> ProviderOutcomes] :
         LET r == QueryResult(networkProviders, outcomes) IN
         walletCall' = [called |-> TRUE, outcomes |-> outcomes, queried |-> r.queried,
                        result |-> r.result]
    /\ UNCHANGED networkProviders
    /\ UNCHANGED <<plannerVars, quoteVars, walletVars, requestVars, concVars, swapVars,
                   stagedVars, sendVars, cacheVars>>

LoopNext ==
    \/ RegisterProvider
    \/ QueryWallet
LoopSpec == QuoteInit /\ [][LoopNext]_vars

(* ---------------- the outcome records of a reconciliation ---------------- *)
\* names of the tool messages the executor hands back
ToolNames == {"executor", "swap", "get_wallet_balance"}
\* executor's outcome lists, a record modelled by its name
OutcomeLists == UNION {[1..n -> ToolNames] : n \in 0..MaxOutcomes}
NotExecutor(name) == name # "executor"
\* the records updatePlanNode puts into its request, one message per record
responseTools_KeepAll(ert) == ert
responseTools(ert) ==
    IF Len(SelectSeq(ert, NotExecutor)) > 0 THEN SelectSeq(ert, NotExecutor) ELSE ert

\* a turn that has entered UPDATE_PLAN with the executor's outcome records
RequestInit ==
    /\ plans_present = TRUE
    /\ plans = <<[id |-> PlanIdOf(1), status |-> "active",
                  tasks |-> [i \in 1..MaxTasks |-> [status |-> "pending", retry |-> 0]]]>>
    /\ active_plan_id = PlanIdOf(1)
    /\ selected_task_indexes = {0}
    /\ executor_input = <<PlanIdOf(1), {0}>>
    /\ next_node = END
    /\ answer = Null
    /\ ended_by = Undef
    /\ chat_history = <<>>
    /\ pc = "update_plan"
    /\ route = "update_plan"
    /\ visited = <<>>
    /\ gwLog = <<>>
    /\ selResp = TextOnly
    /\ updResp = TextOnly
    /\ capLog = <<>>
    /\ capFailed = FALSE
    /\ forced = FALSE
    /\ prevOutcome = "continue"
    /\ turn = 2
    /\ new_plan = Undef
    /\ QuoteIdle /\ WalletIdle /\ ConcIdle /\ ProviderIdle
    /\ executor_response_tools \in OutcomeLists
    /\ toolMessages = <<>>

\* updatePlanNode with outcome records: the request it sends recorded
ReconcileOutcomes ==
    /\ pc = "update_plan"
    /\ toolMessages' = responseTools(executor_response_tools)
    /\ \E resp \in UpdateResponses(plans), capOk \in BOOLEAN :
         LET r == updatePlanNode(resp, capOk, plans) IN
         /\ UpdateRejected(resp) => ~capOk
         /\ gwLog' = Append(gwLog, <<"update_plan", Kind(resp)>>)
         /\ capLog' = capLog \o r.caps
         /\ capFailed' = (capFailed \/ (r.caps # <<>> /\ ~capOk))
         /\ visited' = Append(visited, "update_plan")
         /\ IF r.err THEN Fail
            ELSE Apply(r.out) /\ pc' = "select_tasks"
    /\ UNCHANGED <<route, selResp, updResp, forced, prevOutcome, turn, new_plan>>
    /\ UNCHANGED <<quoteVars, walletVars, concVars, providerVars, executor_response_tools>>

RequestSpec == RequestInit /\ [][ReconcileOutcomes]_vars

(* ---------------- two turns at once ---------------- *)
Sessions == {1, 2}
Final == {"END", "failed"}
\* a fresh session state
SessionFresh ==
    [plans_present |-> FALSE, plans |-> <<>>, active_plan_id |-> Undef,
     selected_task_indexes |-> UndefIdx, executor_input |-> <<>>,
     next_node |-> Undef, answer |-> Undef, ended_by |-> Undef,
     chat_history |-> <<>>, pc |-> "START"]
\* the session state a turn ended with 'continue' has left
SessionContinued ==
    [plans_present |-> TRUE,
     plans |-> <<[id |-> PlanIdOf(1), status |-> "active",
                  tasks |-> [i \in 1..MaxTasks |-> NewTask]]>>,
     active_plan_id |-> PlanIdOf(1),
     selected_task_indexes |-> {0}, executor_input |-> <<PlanIdOf(1), {0}>>,
     next_node |-> END, answer |-> Null, ended_by |-> Undef,
     chat_history |-> <<>>, pc |-> "START"]
SessionStarts == {SessionFresh, SessionContinued}
\* what the gateway answers each node of a turn, and whether the handler
\* invoked returns
SessionReplies ==
    [create : {TextOnly} \cup {OneCall(c) : c \in CreateCalls},
     update : {TextOnly,
               OneCall(Call("update_plan", PlanIdOf(1), {},
                            [index |-> 0, status |-> "failed", inc |-> 1,
                             done |-> FALSE, ntasks |-> 0])),
               OneCall(Call("update_plan", PlanIdOf(1), {},
                            [index |-> 0, status |-> "complete", inc |-> 0,
                             done |-> TRUE, ntasks |-> 0]))},
     select : {OneCall(TerminateCall),
               OneCall(Call("select_tasks", PlanIdOf(1), {0}, NoUpd))},
     capOk : BOOLEAN]

\* the channels of a run after a node has returned out
ApplyTo(st, out) ==
    [st EXCEPT !.plans_present = (@ \/ Has(out, "plans")),
               !.plans = Merged(@, out, "plans"),
               !.active_plan_id = Merged(@, out, "active_plan_id"),
               !.selected_task_indexes = Merged(@, out, "selected_task_indexes"),
               !.executor_input = Merged(@, out, "executor_input"),
               !.next_node = Merged(@, out, "next_node"),
               !.answer = Merged(@, out, "answer"),
               !.ended_by = Merged(@, out, "ended_by"),
               !.chat_history = Merged(@, out, "chat_history")]
Failed(st) == [st EXCEPT !.pc = "failed"]
\* one step of a run at st: the START edge or the node st.pc with the edge
\* that leaves it; hp: the plan list the handler invoked works on
NodeStep(st, re, hp) ==
    CASE st.pc = "START" ->
           [st EXCEPT !.pc = shouldCreateOrUpdatePlan(st.plans_present, st.plans,
                                                      st.active_plan_id, st.ended_by)]
      [] st.pc = "create_plan" ->
           LET r == createPlanNode(re.create, re.capOk, hp) IN
           IF r.err THEN Failed(st)
           ELSE [ApplyTo(st, r.out) EXCEPT !.pc = "select_tasks"]
      [] st.pc = "update_plan" ->
           LET r == updatePlanNode(re.update, re.capOk, hp) IN
           IF r.err THEN Failed(st)
           ELSE [ApplyTo(st, r.out) EXCEPT !.pc = "select_tasks"]
      [] st.pc = "select_tasks" ->
           IF ~st.plans_present THEN Failed(st)
           ELSE LET r == IF planToTerminate(st.plans)
                         THEN Result(ForcedOut, <<>>)
                         ELSE selectTasksNode(re.select, re.capOk) IN
                IF r.err THEN Failed(st)
                ELSE LET n == ApplyTo(st, r.out) IN
                     [n EXCEPT !.pc = selectTasksEdge(n.next_node, n.answer)]
      [] st.pc = "planning_answer" ->
           [ApplyTo(st, AnswerOut) EXCEPT !.pc = "end"]
      [] st.pc = "end" ->
           [st EXCEPT !.pc = "END"]
\* the plan list the handlers of run s work on
HandlerPlans_Global(s, ss) == ss[1].plans
HandlerPlans(s, ss) == ss[s].plans

RECURSIVE Solo(_, _)
\* the session state a turn reaches run alone from st with replies re
Solo(st, re) ==
    IF st.pc \in Final THEN st ELSE Solo(NodeStep(st, re, st.plans), re)

ConcInit ==
    /\ PlannerInit /\ plans_present = FALSE
    /\ QuoteIdle /\ WalletIdle /\ RequestIdle /\ ProviderIdle
    /\ started \in [Sessions -> SessionStarts]
    /\ sessions = started
    /\ replies \in [Sessions -> SessionReplies]
    /\ overlapped = FALSE

\* a node (or the START edge) of run s executes
RunNode(s) ==
    /\ sessions[s].pc \notin Final
    /\ sessions' = [sessions EXCEPT
                       ![s] = NodeStep(sessions[s], replies[s], HandlerPlans(s, sessions))]
    /\ overlapped' = (overlapped \/ \E o \in Sessions \ {s} :
                                       sessions[o].pc \notin (Final \cup {"START"}))
    /\ UNCHANGED <<started, replies>>
    /\ UNCHANGED <<plannerVars, quoteVars, walletVars, requestVars, providerVars>>

ConcNext == \E s \in Sessions : RunNode(s)
ConcSpec == ConcInit /\ [][ConcNext]_vars

(* ---------------- the get_wallet_balance tool ---------------- *)
\* the networks of the schema's enum
SchemaNetworks == {"bnb", "solana", "ethereum", "hyperliquid", "base"}
\* this.agent.getWallet().getAddress(network)
AgentAddress(network) ==
    CASE network = "bnb" -> "agent evm address"
      [] network = "ethereum" -> "agent evm address"
      [] network = "base" -> "agent evm address"
      [] network = "hyperliquid" -> "agent evm address"
      [] network = "solana" -> "agent solana address"
\* an address the caller gives
UserAddress == "0xabc"
CallDone(queries, result) == [queries |-> queries, result |-> result]
\* func(args) with the networks getSupportedNetworks() returns; walletOk:
\* the agent's wallet yields an address; hasProviders: the registry has a
\* provider for the network; queryOk: a provider or the hyperliquid API
\* answers
GetWalletBalanceFunc(a, supported, walletOk, hasProviders, queryOk) ==
    LET network == a.network IN
    IF network \notin supported
    THEN CallDone({}, "error NETWORK_VALIDATION")
    ELSE IF network = "hyperliquid"
    THEN CallDone({[target |-> "hyperliquid", network |-> network, address |-> a.address]},
                  IF queryOk THEN "success" ELSE "error")
    ELSE IF a.address = Undef /\ ~walletOk
    THEN CallDone({}, "error")
    ELSE LET address == IF a.address = Undef THEN AgentAddress(network) ELSE a.address IN
         IF ~hasProviders
         THEN CallDone({}, "error PROVIDER_AVAILABILITY")
         ELSE CallDone({[target |-> "provider", network |-> network, address |-> address]},
                       IF queryOk THEN "success" ELSE "error")

\* a tool whose supported networks are known and a call's arguments
WalletInit ==
    /\ PlannerInit /\ plans_present = FALSE
    /\ QuoteIdle /\ RequestIdle /\ ConcIdle /\ ProviderIdle
    /\ callArgs \in [address : {Undef, UserAddress}, network : SchemaNetworks \cup {Undef}]
    /\ supportedNetworks \in SUBSET SchemaNetworks
    /\ balanceQueries = {}
    /\ toolResult = "pending"

GetWalletBalance ==
    /\ toolResult = "pending"
    /\ \E walletOk \in BOOLEAN, hasProviders \in BOOLEAN, queryOk \in BOOLEAN :
         LET r == GetWalletBalanceFunc(callArgs, supportedNetworks, walletOk, hasProviders,
                                       queryOk) IN
         /\ balanceQueries' = r.queries
         /\ toolResult' = r.result
    /\ UNCHANGED <<callArgs, supportedNetworks>>
    /\ UNCHANGED <<plannerVars, quoteVars, requestVars, concVars, providerVars>>

WalletSpec == WalletInit /\ [][GetWalletBalance]_vars

(* ---------------- the claims ---------------- *)
Ran(node) == \E i \in 1..Len(visited) : visited[i] = node
GwCalledBy(node) == \E i \in 1..Len(gwLog) : gwLog[i][1] = node
GwAnswered(node, kind) == \E i \in 1..Len(gwLog) : gwLog[i] = <<node, kind>>
CapInvoked(cap) == \E i \in 1..Len(capLog) : capLog[i] = cap
\* some task of some plan is failed with a retry count above 3
SomeTaskOverCeiling ==
    /\ plans_present
    /\ \E n \in 1..Len(plans) : \E i \in 1..Len(plans[n].tasks) :
          plans[n].tasks[i].status = "failed" /\ plans[n].tasks[i].retry > 3
PlanWithId(id) == {n \in 1..Len(plans) : plans[n].id = id}
\* the START edge has just decided and no node has run yet
AtStartDecision == pc \in {"create_plan", "update_plan"}
\* the nodes of a turn that goes through the Answer Synthesizer
AnswerPath == <<route, "select_tasks", "planning_answer", "end", "END">>
\* the nodes of a turn that ends with "continue"
ContinuePath == <<route, "select_tasks", "end", "END">>
OnPath(path) ==
    /\ Len(visited) >= 2
    /\ Len(visited) < Len(path)
    /\ visited = SubSeq(path, 1, Len(visited))
    /\ pc = path[Len(visited) + 1]

\* C1: once the Task Selector has run on a plan list in which any plan
\* (active or not) holds a failed task with retry > 3, it has signalled
\* termination (next_node = 'end') without a gateway call and without
\* invoking the select_tasks or terminate capability.
C1_ForcedTerminationWithoutGateway ==
    (Ran("select_tasks") /\ SomeTaskOverCeiling)
        => /\ forced
           /\ pc # "failed"
           /\ pc = "planning_answer" => next_node = "end"
           /\ ~GwCalledBy("select_tasks")
           /\ ~CapInvoked("select_tasks")
           /\ ~CapInvoked("terminate")
\* forced termination caused by a plan that is not the active plan
C1_Witness ==
    /\ pc = "END" /\ forced
    /\ \E n \in 1..Len(plans) :
          /\ plans[n].id # active_plan_id
          /\ PlanWithId(active_plan_id) # {}
          /\ \E i \in 1..Len(plans[n].tasks) :
                plans[n].tasks[i].status = "failed" /\ plans[n].tasks[i].retry > 3

\* C2: when the retry ceiling is breached the selector raises no error and
\* the turn runs SELECT_TASKS, then ANSWER, then END, whatever next_node
\* and answer an earlier turn left behind.
C2_BreachGoesToAnswer ==
    (Ran("select_tasks") /\ SomeTaskOverCeiling) => OnPath(AnswerPath)
\* a breached turn that ended through ANSWER although the previous turn
\* left next_node = END and answer = null
C2_Witness ==
    /\ pc = "END" /\ forced /\ Ran("planning_answer")
    /\ prevOutcome = "continue"

\* C3: at START with the plan list absent or empty the orchestrator enters
\* CREATE_PLAN, never UPDATE_PLAN, whatever active_plan_id and ended_by.
C3_NoPlansEntersCreatePlan ==
    (AtStartDecision /\ (~plans_present \/ Len(plans) = 0)) => pc = "create_plan"
\* an empty plan list met with active_plan_id and ended_by both set
C3_Witness ==
    /\ pc = "create_plan" /\ Len(plans) = 0
    /\ active_plan_id # Undef /\ ended_by = "planner_answer"

\* C4: at START with ended_by = 'planner_answer' the orchestrator enters
\* CREATE_PLAN even when the plan designated by active_plan_id exists and
\* is not complete.
C4_EndedByPlannerEntersCreatePlan ==
    (AtStartDecision /\ ended_by = "planner_answer") => pc = "create_plan"
C4_Witness ==
    /\ pc = "create_plan" /\ ended_by = "planner_answer"
    /\ \E n \in PlanWithId(active_plan_id) : plans[n].status # "complete"

\* the active plan as the spec has it: the plan the Plan Compiler has just
\* produced, else the plan designated by active_plan_id
SpecActivePlan == IF new_plan # Undef THEN new_plan ELSE active_plan_id
\* C5: at START, if the active plan is complete the orchestrator enters
\* CREATE_PLAN, whichever way the plan became the active plan (designated
\* by a select_tasks action, or just produced by the Plan Compiler).
C5_CompleteActivePlanEntersCreatePlan ==
    (AtStartDecision
        /\ \E n \in PlanWithId(SpecActivePlan) : plans[n].status = "complete")
        => pc = "create_plan"

\* C6: when the previous turn ended with 'continue' (select_tasks action
\* taken, END reached without an answer) and the selected plan is not
\* complete, the turn enters UPDATE_PLAN, not CREATE_PLAN.
C6_ContinueEntersUpdatePlan ==
    (AtStartDecision /\ prevOutcome = "continue"
        /\ \E n \in PlanWithId(active_plan_id) : plans[n].status # "complete")
        => pc = "update_plan"

\* C7: when the gateway answers the selector with select_tasks(P, I) and the
\* capability returns, selected_task_indexes = I and active_plan_id = P,
\* the turn goes SELECT_TASKS -> END and the Answer Synthesizer does not run.
C7_SelectTasksRecordsAndContinues ==
    (GwAnswered("select_tasks", "select_tasks") /\ pc # "failed")
        => /\ selected_task_indexes = selResp.calls[1].task_indexes
           /\ active_plan_id = selResp.calls[1].plan_id
           /\ OnPath(ContinuePath)
           /\ ~Ran("planning_answer")
\* a select_tasks turn that ended with "continue" after a turn that had
\* left an answer behind
C7_Witness ==
    /\ pc = "END" /\ GwAnswered("select_tasks", "select_tasks")
    /\ prevOutcome = "answer"
    /\ selected_task_indexes = {0} /\ active_plan_id \in IdsOf(plans)

\* C8: when the gateway answers the selector with terminate, the selector
\* raises no error and the turn runs SELECT_TASKS, ANSWER, END.
C8_TerminateGoesToAnswer ==
    GwAnswered("select_tasks", "terminate")
        => (OnPath(AnswerPath) /\ ~CapInvoked("terminate"))
C8_Witness ==
    /\ pc = "END" /\ GwAnswered("select_tasks", "terminate")
    /\ Ran("planning_answer") /\ prevOutcome = "continue"

\* C9: when the gateway answers the selector with text and no action (an
\* absent or empty action list), the selector raises no error and the turn
\* goes to ANSWER, never to END without the Answer Synthesizer.
C9_TextAtSelectorGoesToAnswer ==
    (GwAnswered("select_tasks", "text") \/ GwAnswered("select_tasks", "empty"))
        => OnPath(AnswerPath)

\* C10: when the gateway answers the Plan Compiler or the Plan Reconciler
\* with text and not the expected action, the node raises no error, invokes
\* no capability, leaves the plan list unchanged and the response is the
\* answer of the turn: no task selection follows.
C10_TextAtPlannerShortCircuits ==
    (\E node \in {"create_plan", "update_plan"} : \E kind \in {"text", "empty"} :
        GwAnswered(node, kind))
        => /\ pc # "failed"
           /\ capLog = <<>>
           /\ pc # "select_tasks" /\ ~Ran("select_tasks")


\* C11: the turn enters UPDATE_PLAN at START only if active_plan_id is set
\* and designates a plan of the plan list whose status is not 'complete',
\* and ended_by is not 'planner_answer'.
C11_UpdateOnlyWithActiveIncompletePlan ==
    pc = "update_plan"
        => /\ active_plan_id # Undef
           /\ \E n \in PlanWithId(active_plan_id) : plans[n].status # "complete"
           /\ ended_by # "planner_answer"

TurnPaths ==
    {<<r, "select_tasks", "end">> : r \in {"create_plan", "update_plan"}}
    \cup {<<r, "select_tasks", "planning_answer", "end">>
            : r \in {"create_plan", "update_plan"}}
\* the nodes run so far are the beginning of one node order and the node
\* about to run is the next one of that order
C13_InOrder ==
    IF pc = "START" THEN visited = <<>>
    ELSE \E path \in TurnPaths :
            /\ Len(visited) <= Len(path)
            /\ visited = SubSeq(path, 1, Len(visited))
            /\ \/ pc = "failed" /\ Len(visited) >= 1
               \/ pc = (IF Len(visited) = Len(path) THEN "END"
                        ELSE path[Len(visited) + 1])
\* a step that changes the session state is the run of exactly one node
C13_OneNodeAtATime ==
    state' # state => visited' = Append(visited, pc)
\* C13: in every turn the nodes run one at a time in the order (CREATE_PLAN
\* or UPDATE_PLAN), SELECT_TASKS once, then END or ANSWER followed by END,
\* and every update of the session state is made by the one node running.
C13_NodesRunSequentially == []C13_InOrder /\ [][C13_OneNodeAtATime]_vars
\* a turn that has run the four nodes of the longest order
C13_Witness ==
    pc = "END" /\ visited = <<"update_plan", "select_tasks", "planning_answer", "end">>

GraphNodes == {"create_plan", "update_plan", "select_tasks", "planning_answer"}
\* gateway calls issued by a node in this turn
GwCount(node) == Cardinality({i \in 1..Len(gwLog) : gwLog[i][1] = node})
\* capability invocations made by a node in this turn (a capability is
\* invoked by the node of the same name only)
CapCount(node) == Cardinality({i \in 1..Len(capLog) : capLog[i] = node})
\* C14 as stated: every node that has run has issued exactly one gateway
\* call and at most one capability invocation.
C14_ExactlyOneGatewayCall ==
    \A node \in GraphNodes :
        Ran(node) => GwCount(node) = 1 /\ CapCount(node) <= 1
\* C14: every node that has run has issued at most one gateway call and at
\* most one capability invocation, however many actions the response
\* carries; it has issued exactly one gateway call unless it is the Task
\* Selector forcing termination or failing on an absent plan list.
C14_AtMostOneGatewayCall ==
    \A node \in GraphNodes :
        Ran(node) =>
            /\ GwCount(node) <= 1
            /\ CapCount(node) <= 1
            /\ GwCount(node) = 0 =>
                  node = "select_tasks" /\ (forced \/ ~plans_present)
\* a turn in which the Plan Reconciler made one gateway call and one
\* invocation, the Task Selector forced termination without a gateway
\* call, and the Answer Synthesizer made one gateway call
C14_Witness ==
    /\ pc = "END" /\ forced
    /\ gwLog = << <<"update_plan", "update_plan">>, <<"planning_answer", "text">> >>
    /\ capLog = <<"update_plan">>

\* C15: no step removes or reorders an entry of the chat history, and the
\* Answer Synthesizer leaves the chat history it found with its response
\* appended at the end.
C15_ChatHistoryAppendOnly ==
    [][/\ Len(chat_history') >= Len(chat_history)
       /\ SubSeq(chat_history', 1, Len(chat_history)) = chat_history
       /\ (pc = "planning_answer" /\ pc' = "end")
             => chat_history' = Append(chat_history, answer')]_vars

\* the Plan Compiler has just run and its capability has returned
CompilerAddedPlan ==
    pc = "create_plan" /\ pc' = "select_tasks" /\ CapInvoked("create_plan")'
C17_NewPlanIsActive ==
    (pc = "select_tasks" /\ ~Ran("select_tasks") /\ CapInvoked("create_plan"))
        => active_plan_id = plans[Len(plans)].id

ReconciledArgs == UpdateArgs(SelectSeq(updResp.calls, IsUpdateCall))
ReconciledIndexes ==
    {ReconciledArgs.tasks[k].index : k \in 1..Len(ReconciledArgs.tasks)}
\* C19: when the Plan Reconciler has applied an update carrying outcomes
\* for some task indexes of a plan, every task of that plan at another
\* index and every task of every other plan has the status it had.
C19_OtherTasksKeepStatus ==
    [][(pc = "update_plan" /\ pc' = "select_tasks" /\ CapInvoked("update_plan")')
         => LET args == ReconciledArgs'
                indexes == ReconciledIndexes'
            IN \A n \in 1..Len(plans) : \A i \in 1..Len(plans[n].tasks) :
                  (plans[n].id # args.plan_id \/ (i - 1) \notin indexes)
                     => plans'[n].tasks[i].status = plans[n].tasks[i].status]_vars
\* an update of task 0 of the first plan has been applied: that task is
\* complete, the plan's other task is still failed, the other plan's tasks
\* are still pending
C19_Witness ==
    /\ pc = "select_tasks" /\ CapInvoked("update_plan")
    /\ Len(updResp.calls) = 1
    /\ ReconciledArgs.plan_id = PlanIdOf(1) /\ ReconciledIndexes = {0}
    /\ plans[1].tasks[1].status = "complete"
    /\ plans[1].tasks[2].status = "failed"
    /\ \A i \in 1..Len(plans[2].tasks) : plans[2].tasks[i].status = "pending"

\* C20: over every step, no task's retry count decreases.
C20_RetryNeverDecreases ==
    [][\A n \in 1..Len(plans) : \A i \in 1..Len(plans[n].tasks) :
          /\ n <= Len(plans') /\ i <= Len(plans'[n].tasks)
          /\ plans'[n].tasks[i].retry >= plans[n].tasks[i].retry]_vars
\* a task set back to pending by the reconciler of this turn that has kept
\* a retry count above 0
C20_Witness ==
    /\ pc = "select_tasks" /\ CapInvoked("update_plan")
    /\ \E n \in 1..Len(plans) : \E i \in 1..Len(plans[n].tasks) :
          plans[n].tasks[i].status = "pending" /\ plans[n].tasks[i].retry > 0

\* the node that ran last in this turn
LastNode == visited[Len(visited)]
\* once a capability has thrown, the turn has failed in the node that
\* invoked it, after one invocation
C21_FailedInInvokingNode ==
    capFailed =>
        /\ pc = "failed"
        /\ capLog[Len(capLog)] = LastNode
        /\ CapCount(LastNode) = 1
\* the step in which a capability throws writes nothing to the session
\* state, and no step follows it
C21_NothingWrittenNothingAfter ==
    /\ (capFailed' /\ ~capFailed) => state' = state
    /\ capFailed => visited' = visited /\ capLog' = capLog
\* C21: when a capability handler fails while a node invokes it, the turn
\* fails: the handler is not invoked again in the turn, no later node
\* runs, and the failing node writes nothing to the session state.
C21_CapabilityFailureFailsTurn ==
    []C21_FailedInInvokingNode /\ [][C21_NothingWrittenNothingAfter]_vars
\* update_plan has thrown in a turn on a session that holds a plan
C21_Witness ==
    /\ capFailed /\ pc = "failed" /\ visited = <<"update_plan">>
    /\ capLog = <<"update_plan">> /\ Len(plans) >= 1

MissingPlanId(resp, name) ==
    \E k \in 1..Len(resp.calls) :
        resp.calls[k].name = name /\ resp.calls[k].plan_id = Undef
\* C22: when the gateway's response carried an update_plan or select_tasks
\* action without a required argument, the node has failed: no plan update
\* was applied, no absent value was recorded and the turn goes no further.
C22_MalformedActionFailsNode ==
    /\ MissingPlanId(updResp, "update_plan") => pc = "failed"
    /\ (MissingPlanId(selResp, "select_tasks")
          \/ \E k \in 1..Len(selResp.calls) :
                selResp.calls[k].name = "select_tasks"
                   /\ selResp.calls[k].task_indexes = UndefIdx)
        => pc = "failed" \/ ~CapInvoked("select_tasks")

\* C23: when a turn has ended with 'continue', the selection is recorded
\* and non-empty, active_plan_id is the id of exactly one plan of the plan
\* list, and every selected index is the index of a task of that plan.
C23_ContinueIsConsistent ==
    (pc = "END" /\ Outcome(visited, capLog) = "continue")
        => /\ selected_task_indexes # UndefIdx
           /\ selected_task_indexes # {}
           /\ Cardinality(PlanWithId(active_plan_id)) = 1
           /\ \A n \in PlanWithId(active_plan_id) :
                 selected_task_indexes \subseteq 0..(Len(plans[n].tasks) - 1)

\* a quote is in the store exactly while its own timer is pending, with the
\* expiry its timer has
C24_StoredWhileTimerPending ==
    /\ \A t \in timers : t.quoteId \in DOMAIN quotes /\ quotes[t.quoteId] = t.due
    /\ \A quoteId \in DOMAIN quotes : \E t \in timers : t.quoteId = quoteId
\* a timer that fires does so no earlier than 5 minutes after getQuote and
\* removes its own quote only
C24_TimerRemovesOwnQuote ==
    \A t \in timers \ timers' :
        /\ now >= t.due
        /\ DOMAIN quotes' = (DOMAIN quotes) \ {t.quoteId}
\* C24: a quote is in the provider's quote store from getQuote until its
\* own 5-minute timer fires and absent afterwards; a timer never removes
\* another quote; the store eventually stays empty.
C24_QuotesExpire ==
    /\ []C24_StoredWhileTimerPending
    /\ [][C24_TimerRemovesOwnQuote]_vars
    /\ <>[](DOMAIN quotes = {})
\* the first of two quotes has expired while the second is still stored
C24_Witness ==
    /\ requests >= 2
    /\ DOMAIN quotes = {NewQuoteId(2)}
    /\ \E t \in timers : t.quoteId = NewQuoteId(2) /\ t.due > now

\* C25: when the call gave no address, every balance query issued uses the
\* agent's wallet address for the queried network; no balance query is
\* issued with an absent address.
C25_AgentAddressWhenNoneGiven ==
    \A q \in balanceQueries :
        /\ q.address # Undef
        /\ callArgs.address = Undef => q.address = AgentAddress(q.network)

\* C26: when the call gave no network, the call has not ended in a
\* network-validation error, and once it has succeeded every supported
\* network has been queried.
C26_AllNetworksWhenNoneGiven ==
    callArgs.network = Undef =>
        /\ toolResult # "error NETWORK_VALIDATION"
        /\ toolResult = "success" =>
              \A n \in supportedNetworks : \E q \in balanceQueries : q.network = n

\* the request of updatePlanNode has been sent
RequestSent == pc # "update_plan"
HasExecutor(ms) == \E k \in 1..Len(ms) : ms[k] = "executor"
\* C27 as stated: no record named 'executor' is ever included in the
\* reconciler's request, whatever the executor's outcome list holds.
C27_NoExecutorRecordInRequest ==
    RequestSent => ~HasExecutor(toolMessages)

\* C27: when the executor's outcome list holds a record with another name,
\* the reconciler's request has no record named 'executor' and has every
\* other record in order; a list of 'executor' records only is passed whole.
C27_ExecutorExcludedWhenOthers ==
    RequestSent =>
        /\ SelectSeq(toolMessages, NotExecutor)
             = SelectSeq(executor_response_tools, NotExecutor)
        /\ IF \E k \in 1..Len(executor_response_tools) :
                  NotExecutor(executor_response_tools[k])
           THEN ~HasExecutor(toolMessages)
           ELSE toolMessages = executor_response_tools
C27_Witness ==
    /\ RequestSent
    /\ HasExecutor(executor_response_tools)
    /\ Len(toolMessages) > 1
    /\ Len(toolMessages) < Len(executor_response_tools)

\* a step of the SELECT_TASKS node that does not fail
SelectStep == pc = "select_tasks" /\ pc' \notin {"select_tasks", "failed"}
\* the step takes the forced-termination path
ForcedStep == SelectStep /\ planToTerminate(plans)
\* the step asks the gateway, whose first action is 'terminate'
TerminateStep ==
    /\ SelectStep
    /\ Len(gwLog') = Len(gwLog) + 1
    /\ selResp'.has /\ Len(selResp'.calls) > 0
    /\ selResp'.calls[1].name = "terminate"
AnswerStep == pc = "planning_answer" /\ pc' # "planning_answer"
\* C30: on forced termination and on 'terminate' the SELECT_TASKS node
\* leaves plans, active_plan_id, selected_task_indexes, executor_input,
\* chat_history, ended_by (and answer) unchanged, writing next_node only;
\* the Answer Synthesizer leaves plans, active_plan_id and
\* selected_task_indexes unchanged.
C30_TerminationKeepsSelection ==
    /\ [][(ForcedStep \/ TerminateStep) =>
            UNCHANGED <<plans_present, plans, active_plan_id, selected_task_indexes,
                        executor_input, chat_history, ended_by, answer>>]_vars
    /\ [][AnswerStep =>
            UNCHANGED <<plans_present, plans, active_plan_id, selected_task_indexes>>]_vars
C30_Witness ==
    /\ pc = "END"
    /\ ~forced
    /\ Ran("planning_answer")
    /\ selResp.has /\ Len(selResp.calls) > 0 /\ selResp.calls[1].name = "terminate"
    /\ Len(plans) > 0
    /\ active_plan_id # Undef
    /\ selected_task_indexes \notin {UndefIdx, {}}

\* a turn is over: it has reached END or a node has thrown
TurnOver == pc \in {"END", "failed"}
\* while a task is over the ceiling no step changes the selection
CeilingFreezesSelection ==
    [][SomeTaskOverCeiling => UNCHANGED <<active_plan_id, selected_task_indexes>>]_vars
UpdateActions(resp) == SelectSeq(resp.calls, IsUpdateCall)
\* C31: when the response to the Plan Reconciler holds update_plan actions,
\* the update_plan capability is invoked exactly once, and what it applies
\* is the task lists of all of them, in response order, to the plan named
\* by the first; actions of another name are ignored, and without an
\* update_plan action nothing is invoked or written.
C31_OneInvocationWithMergedTasks ==
    [][(pc = "update_plan" /\ pc' # "update_plan")
         => LET acts == UpdateActions(updResp') IN
            IF updResp'.has /\ Len(acts) > 0
            THEN /\ capLog' = Append(capLog, "update_plan")
                 /\ pc' = "select_tasks" =>
                       plans' = UpdatePlanTool(
                                    [plan_id |-> acts[1].plan_id,
                                     tasks |-> [k \in 1..Len(acts) |-> acts[k].upd]],
                                    plans)
            ELSE capLog' = capLog /\ plans' = plans]_vars
\* two update_plan actions naming different plans and different tasks: one
\* invocation has applied both to the plan the first one names
C31_Witness ==
    /\ pc = "select_tasks" /\ capLog = <<"update_plan">>
    /\ Len(updResp.calls) = 2
    /\ updResp.calls[1].name = "update_plan" /\ updResp.calls[2].name = "update_plan"
    /\ updResp.calls[1].plan_id = PlanIdOf(1) /\ updResp.calls[2].plan_id = PlanIdOf(2)
    /\ updResp.calls[1].upd.index = 0 /\ updResp.calls[2].upd.index = 1
    /\ updResp.calls[1].upd.status = "failed"
    /\ plans[1].tasks[1].status = "failed" /\ plans[1].tasks[2].status = "complete"
    /\ plans[2].tasks[2].status # "complete"

\* nodes of the graph, the node 'end' included
AllNodes == GraphNodes \cup {"end"}
\* the turn so far: at most four nodes, none twice, the node about to run
\* not yet run, at most three gateway calls, one per node at most
TurnBounded ==
    /\ Len(visited) <= 4
    /\ \A i, j \in 1..Len(visited) : visited[i] = visited[j] => i = j
    /\ pc \in AllNodes => ~Ran(pc)
    /\ Len(gwLog) <= 3
    /\ GwCount("create_plan") + GwCount("update_plan") <= 1
    /\ GwCount("select_tasks") <= 1
    /\ GwCount("planning_answer") <= 1
    /\ \A i \in 1..Len(gwLog) : gwLog[i][1] \in GraphNodes
\* C32: every turn terminates: a turn started at START reaches END or
\* fails, having run at most four nodes, none of them twice, and issued at
\* most three gateway calls: one by CREATE_PLAN or UPDATE_PLAN, at most one
\* by SELECT_TASKS, at most one by ANSWER.
C32_TurnTerminates ==
    /\ []TurnBounded
    /\ [][(pc \in AllNodes) => visited' = Append(visited, pc)]_vars
    /\ (pc = "START") ~> (pc \in {"END", "failed"})
\* a turn over after four nodes and three gateway calls
C32_Witness ==
    /\ pc = "END" /\ Len(visited) = 4 /\ Len(gwLog) = 3
    /\ Ran("update_plan") /\ CapInvoked("update_plan")

\* a step that is a call of buildSwapTransaction
BuildStep == built' # built
\* C33: buildSwapTransaction returns a transaction exactly for a quote id
\* that is in the quote store; for an id never issued or removed by its
\* timer it fails with 'Failed to build swap transaction: Quote expired or
\* not found. Please get a new quote.'; the call leaves the store as it is.
C33_BuildsOnlyFromStoredQuote ==
    [][BuildStep =>
         /\ built'.called
         /\ quotes' = quotes /\ timers' = timers
         /\ IF built'.quote.quoteId \in DOMAIN quotes
            THEN built'.result.ok
            ELSE ~built'.result.ok /\ built'.result.error = BuildError]_vars
\* the quote of a call has been removed by its timer, the call has failed
\* and a later quote is still stored
C33_Witness ==
    /\ built.called /\ ~built.result.ok
    /\ built.quote.quoteId = NewQuoteId(1)
    /\ requests >= 2
    /\ \A t \in timers : t.quoteId # NewQuoteId(1)
    /\ NewQuoteId(2) \in DOMAIN quotes

\* C34: buildSwapTransaction never returns a transaction for a quote whose
\* expiresAt has passed, however its timer callback and the calls interleave.
C34_NoTransactionAfterExpiry ==
    (built.called /\ built.result.ok) => ~built.expired

\* C36: the transaction buildSwapTransaction returns is that of the quote
\* stored under the quoteId: every quote argument with the same quoteId,
\* whatever its other fields, gets the same result.
C36_ResultDependsOnQuoteIdOnly ==
    [][BuildStep =>
         /\ built'.result.ok => built'.result.tx = StoredTx(built'.quote.quoteId)
         /\ \A other \in QuoteArgs :
               other.quoteId = built'.quote.quoteId
                  => buildSwapTransaction(quotes, other) = built'.result]_vars
\* a call whose quote argument carried another tx than the stored quote
C36_Witness ==
    /\ built.called /\ built.result.ok
    /\ built.quote.tx = ForgedTx
    /\ built.result.tx # built.quote.tx

\* a step that is a call of getQuote on a Dodo or Hyperliquid provider
StagedStep == requests' # requests
\* a failed call: the error of getQuote, nothing stored, no timer started
FailedQuoteStoresNothing ==
    ~quoted'.result.ok =>
        /\ quoted'.result.prefix = "Failed to get quote: "
        /\ quotes' = quotes /\ timers' = timers
\* a successful call: every stage done, then one quote stored with its timer
StoredLast ==
    quoted'.result.ok =>
        /\ quoted'.result.performed = QuoteStages(quoted'.provider, quoted'.params)
        /\ Cardinality(DOMAIN quotes') = Cardinality(DOMAIN quotes) + 1
        /\ Cardinality(timers') = Cardinality(timers) + 1
\* C35 as stated: a failed getQuote stores nothing and starts no timer, a
\* quote is stored as the last step of a successful call, and a request
\* with limitPrice set fails before any token lookup or API call.
C35_LimitPriceSetFailsFirst ==
    [][StagedStep =>
         /\ FailedQuoteStoresNothing
         /\ StoredLast
         /\ quoted'.params.limitPrice # Undef =>
               ~quoted'.result.ok /\ quoted'.result.performed = <<>>]_vars

\* C35: a failed getQuote fails with 'Failed to get quote: ...', stores
\* nothing and starts no timer; a quote is stored as the last step of a
\* successful call; a request whose limitPrice is set to a value other than
\* zero fails before any token lookup or API call.
C35_StoredOnlyOnSuccess ==
    [][StagedStep =>
         /\ FailedQuoteStoresNothing
         /\ StoredLast
         /\ Truthy(quoted'.params.limitPrice) =>
               ~quoted'.result.ok /\ quoted'.result.performed = <<>>]_vars
\* a Dodo call that failed in its API call after an earlier quote was
\* stored: that quote and its timer are all there is
C35_Witness ==
    /\ quoted.called /\ ~quoted.result.ok
    /\ quoted.provider = "dodo"
    /\ quoted.result.message = "api call"
    /\ requests = 2
    /\ DOMAIN quotes = {NewQuoteId(1)}
    /\ Cardinality(timers) = 1

\* a step that is a call of getToken
FetchStep == fetched' # fetched \/ tokenCache' # tokenCache
\* the cache holds an entry under this address younger than 30 minutes
YoungEntry(address) ==
    \E a \in DOMAIN tokenCache :
        a = address /\ now - tokenCache[a].timestamp < CACHE_TTL
\* C37: getToken queries the chain exactly when the cache has no entry for
\* the address younger than 30 minutes; with such an entry it returns the
\* cached token and leaves the cache alone; otherwise a fetch that succeeds
\* stores the fetched token under the address with the time of the call,
\* and a fetch that fails leaves the cache unchanged.
C37_CacheQueriedExactlyWhenStale ==
    [][FetchStep =>
         LET a == fetched'.address IN
         /\ fetched'.queried <=> ~YoungEntry(a)
         /\ YoungEntry(a)
               => /\ fetched'.ok /\ fetched'.token = tokenCache[a].token
                  /\ tokenCache' = tokenCache
         /\ (~YoungEntry(a) /\ fetched'.ok)
               => /\ fetched'.token = FetchedToken(a)
                  /\ DOMAIN tokenCache' = DOMAIN tokenCache \cup {a}
                  /\ tokenCache'[a] = [token |-> FetchedToken(a), timestamp |-> now]
                  /\ \A b \in DOMAIN tokenCache \ {a} : tokenCache'[b] = tokenCache[b]
         /\ (~YoungEntry(a) /\ ~fetched'.ok) => tokenCache' = tokenCache]_vars
\* an entry that has reached 30 minutes was fetched again and replaced while
\* the other address kept its entry
C37_Witness ==
    /\ fetched.called /\ fetched.queried /\ fetched.ok
    /\ fetched.at >= CACHE_TTL
    /\ DOMAIN tokenCache = TokenAddresses
    /\ tokenCache[fetched.address].timestamp = fetched.at
    /\ \E b \in TokenAddresses : tokenCache[b].timestamp < tokenCache[fetched.address].timestamp

RegisteredProviders == {networkProviders[i] : i \in 1..Len(networkProviders)}
\* the providers that threw in the last call
FailedProviders ==
    {networkProviders[i] : i \in {j \in 1..Len(networkProviders) : walletCall.outcomes[j] = "throws"}}
\* C38: every provider of the network is queried exactly once in registry
\* order whatever the earlier ones did; the result is 'success', with an
\* errors map naming exactly the providers that failed, if at least one
\* provider returned, and an error only if all providers failed.
C38_ErrorOnlyIfAllProvidersFailed ==
    walletCall.called =>
        /\ walletCall.queried = networkProviders
        /\ FailedProviders # RegisteredProviders
              => /\ walletCall.result.status = "success"
                 /\ DOMAIN (walletCall.result.errors) = FailedProviders
                 /\ walletCall.result.hasErrors <=> FailedProviders # {}
        /\ walletCall.result.status = "error"
              => FailedProviders = RegisteredProviders

\* C39: the last buildSendTransaction call has placed at most one order,
\* none when the quote lacked a token or an amount or the token lookup
\* failed, none when it failed, and has returned a transaction only for a
\* resting order id.
C39_FailedCallPlacedNoOrder ==
    sent.called =>
        /\ sent.result.requested <= 1 /\ sent.result.placed <= 1
        /\ (~sent.quote.tokens \/ ~sent.quote.amounts \/ ~sent.lookupOk)
              => sent.result.requested = 0 /\ sent.result.placed = 0
        /\ ~sent.result.ok
              => /\ sent.result.prefix = "Failed to build transaction: "
                 /\ sent.result.placed = 0
        /\ sent.result.ok => sent.reply.kind = "resting"
====
